---- MODULE Spec2Model ----
(***************************************************************************)
(* DeFi-Wizzard frontend: the chat page (ChatPage) and the investment      *)
(* survey modal (SurveyModal) as state machines.                           *)
(*                                                                         *)
(* Each React event handler, effect callback and promise continuation is   *)
(* one action.  A handler runs to its first await atomically (the UI event *)
(* loop is single threaded); the effects that its state changes trigger    *)
(* are part of the same action.  A request in flight is an entry of a      *)
(* pending-request sequence; its resolution or rejection is an action.     *)
(*                                                                         *)
(* Spec        the chat page                                               *)
(* SurveySpec  the survey modal                                            *)
(***************************************************************************)
EXTENDS Integers, Sequences, FiniteSets, TLC

VARIABLES
    user,             \* UserContext: NoUser or a user id (both components)
    lastOp,           \* history variable: the handler that ran last
    \* ---- ChatPage (src/unnamed/part_001) ----
    input,            \* useState(''): the textarea's text, a sequence of characters
    messages,         \* useState<Message[]>([]): the transcript
    isLoading,        \* useState(false)
    histReqs,         \* api.chat.messages calls in flight, in the order of issue
    sendReqs,         \* api.chat.sendMessage calls in flight, in the order of issue
    timers,           \* setTimeout callbacks of handleInvestRecommendations, in the order set
    clock,            \* the wall clock read by new Date(): a logical time
    \* ---- SurveyModal (src/frontend/src/components/Survey/SurveyModal.tsx) ----
    open,             \* prop open
    loading,          \* useState(false)
    questions,        \* useState<string[]>([])
    savedAnswers,     \* useState<SurveyAnswersResponse | null>(null)
    formValues,       \* the store of Form.useForm(): question1..question5
    summaryModalOpen, \* useState(false)
    summaryData,      \* useState("")
    loadReqs,         \* loadData calls whose Promise.all members are not all settled
    submitReqs,       \* api.survey.submitAnswers calls in flight
    trace             \* history variable: what the last survey step did, in order

chatVars == <<input, messages, isLoading, histReqs, sendReqs, timers, clock>>
surveyVars == <<open, loading, questions, savedAnswers, formValues,
                summaryModalOpen, summaryData, loadReqs, submitReqs, trace>>
vars == <<user, lastOp, chatVars, surveyVars>>

\* ------------------------------------------------------------------ bounds
\* The number of messages the page creates locally in one run.
MaxClock == 3
\* Send requests in flight at once.
MaxSendReqs == 2
\* Recommendation timers pending at once.
MaxTimers == 1
\* loadData calls in flight at once.
MaxLoads == 1
\* Survey submissions in flight at once.
MaxSubmits == 1

\* ------------------------------------------------------------- user context
NoUser == "null"
\* The components hand the identity to the backend and never inspect it: one
\* identity stands for all.
Users == {"u1"}

\* ---------------------------------------------------------------- ChatPage
messagesPerPage == 20
page == 1

\* Characters of the textarea: SP and NL are white space, "a" is not.
SP == " "
NL == "\n"
WhiteSpace == {SP, NL}
\* The texts the user types.
Inputs == {<<>>, <<NL, SP>>, <<SP, "a", SP>>}

\* String.prototype.trim: the text without its leading and trailing white space.
RECURSIVE TrimLeft(_)
TrimLeft(s) ==
    IF s # <<>> /\ Head(s) \in WhiteSpace THEN TrimLeft(Tail(s)) ELSE s

RECURSIVE TrimRight(_)
TrimRight(s) ==
    IF s # <<>> /\ s[Len(s)] \in WhiteSpace
    THEN TrimRight(SubSeq(s, 1, Len(s) - 1)) ELSE s

trim(s) == TrimRight(TrimLeft(s))

Message(role, content, timestamp) ==
    [role |-> role, content |-> content, timestamp |-> timestamp]

\* Array.prototype.shift on a copy: the array without its first element, an
\* empty array staying empty.
shift(arr) == IF arr = <<>> THEN <<>> ELSE Tail(arr)

\* appendMessage's state updater only appends: a window that never evicts.
appendMessageNoEvict(prev, message) == Append(prev, message)

\* appendMessage's updater with the comparison > in place of >=.
appendMessageLate(prev, message) ==
    LET current == IF Len(prev) > messagesPerPage * 2
                   THEN shift(shift(prev)) ELSE prev
    IN  Append(current, message)

\* appendMessage's updater evicting one entry in place of two.
appendMessageOneShift(prev, message) ==
    LET current == IF Len(prev) >= messagesPerPage * 2
                   THEN shift(prev) ELSE prev
    IN  Append(current, message)

\* appendMessage: the updater handed to setMessages, prev |-> next.
appendMessage(prev, message) ==
    LET current == IF Len(prev) >= messagesPerPage * 2
                   THEN shift(shift(prev)) ELSE prev
    IN  Append(current, message)

\* Array.prototype.reverse
RECURSIVE reverse(_)
reverse(arr) ==
    IF arr = <<>> THEN <<>> ELSE Append(reverse(Tail(arr)), Head(arr))

\* Array.prototype.flatMap with the callback entry => entry.messages.reverse()
RECURSIVE flatMapReversed(_)
flatMapReversed(entries) ==
    IF entries = <<>> THEN <<>>
    ELSE reverse(Head(entries).messages) \o flatMapReversed(Tail(entries))

\* loadPage line 42 without the reverse inside the entries.
flattenEntriesOnly(data) ==
    LET entries == reverse(data.entries)
    IN  IF entries = <<>> THEN <<>>
        ELSE LET cat[i \in 1..Len(entries)] ==
                     IF i = 1 THEN entries[1].messages
                     ELSE cat[i - 1] \o entries[i].messages
             IN  cat[Len(entries)]

\* loadPage line 42: the transcript built from the response.
flatten(data) == flatMapReversed(reverse(data.entries))

\* --- the backend's history page (GET /chat/messages) ---
\* The stored conversation of k messages, oldest first: user and assistant
\* messages alternating, all older than anything this page creates.
StoredMessage(k, j) ==
    Message(IF j % 2 = 1 THEN "user" ELSE "assistant", <<"h">>, j - k - 1)

\* Entry e (1 = oldest) of a conversation of k messages: an exchange, the user
\* message and its reply, newest first; the last entry of an odd conversation
\* holds the unanswered user message alone.
StoredEntry(k, e) ==
    [messages |-> IF 2 * e <= k
                  THEN <<StoredMessage(k, 2 * e), StoredMessage(k, 2 * e - 1)>>
                  ELSE <<StoredMessage(k, 2 * e - 1)>>]

\* The response carrying k messages: the entries, newest first.
HistoryPage(k) ==
    [entries |-> [i \in 1..((k + 1) \div 2) |->
                     StoredEntry(k, ((k + 1) \div 2) + 1 - i)]]

\* The message counts of the pages the backend answers with: a page holds at
\* most messagesPerPage entries of at most two messages.
HistorySizes ==
    {0, 3, 2 * messagesPerPage - 1, 2 * messagesPerPage}

\* --- the backend's reply to a send (POST /chat/messages) ---
ReplyContent == <<"r">>
\* The content of the canned user message.
RecommendationsContent == <<"i">>
\* mock-invest-message: a constant of the bundle, stamped before the page runs.
mockInvestMessage == Message("assistant", <<"m">>, 0)

\* The history effect (lines 63-67), run after a render in which messages.length
\* or user changed: with a user and an empty transcript it calls loadPage, whose
\* synchronous part sets isLoading and issues the request.
HistoryEffect(oldUser, oldMessages, newUser, newMessages, newIsLoading, reqs) ==
    IF /\ (newUser # oldUser \/ Len(newMessages) # Len(oldMessages))
       /\ newUser # NoUser
       /\ Len(newMessages) = 0
    THEN /\ isLoading' = TRUE
         /\ histReqs' = Append(reqs, [userId |-> newUser, page |-> page])
    ELSE /\ isLoading' = newIsLoading
         /\ histReqs' = reqs

\* WithLoader (line 147) wraps the whole page and is given isLoading; its source
\* is in another file of the repository.  The chat contract describes no
\* blocking of the page while the history loads, so the wrapped controls are
\* usable whatever loading is.
WithLoader(loadingProp) == TRUE

RemoveAt(seq, i) == SubSeq(seq, 1, i - 1) \o SubSeq(seq, i + 1, Len(seq))

Op(name, arg) == [op |-> name, arg |-> arg]

\* UserProvider resolves the user identity; the history effect runs on the
\* change.
SetUser(u) ==
    /\ user = NoUser
    /\ user' = u
    /\ HistoryEffect(user, messages, u, messages, isLoading, histReqs)
    /\ lastOp' = Op("setUser", 0)
    /\ UNCHANGED <<input, messages, sendReqs, timers, clock>>
    /\ UNCHANGED surveyVars

\* The textarea's onChange (line 238).
SetInput(text) ==
    /\ WithLoader(isLoading)
    /\ text # input
    /\ input' = text
    /\ lastOp' = Op("setInput", 0)
    /\ UNCHANGED <<user, messages, isLoading, histReqs, sendReqs, timers, clock>>
    /\ UNCHANGED surveyVars

\* sendMessage (lines 47-55) up to its await: the user message is appended and
\* the request issued.  base and sent are history fields: the transcript before
\* and after the append.
sendMessage(userId, message) ==
    LET userMessage == Message("user", message, clock)
    IN  /\ messages' = appendMessage(messages, userMessage)
        /\ sendReqs' = Append(sendReqs,
                              [userId |-> userId, content |-> message,
                               userMessage |-> userMessage,
                               base |-> messages,
                               sent |-> appendMessage(messages, userMessage)])
        /\ clock' = clock + 1

\* handleSendMessage lacking the blank-input return of line 81.
handleSendMessageNoTrim ==
    IF user # NoUser
    THEN /\ input' = <<>>
         /\ sendMessage(user, input)
    ELSE UNCHANGED <<input, messages, sendReqs, clock>>

\* handleSendMessage without the setInput('') of line 83.
handleSendMessageKeepsInput ==
    IF trim(input) = <<>>
    THEN UNCHANGED <<input, messages, sendReqs, clock>>
    ELSE IF user # NoUser
         THEN /\ input' = input
              /\ sendMessage(user, input)
         ELSE UNCHANGED <<input, messages, sendReqs, clock>>

\* handleSendMessage without the user test of line 82.
handleSendMessageNoUserCheck ==
    IF trim(input) = <<>>
    THEN UNCHANGED <<input, messages, sendReqs, clock>>
    ELSE /\ input' = <<>>
         /\ sendMessage(user, input)

\* handleSendMessage (lines 80-86) up to its await.
handleSendMessage ==
    IF trim(input) = <<>>
    THEN UNCHANGED <<input, messages, sendReqs, clock>>
    ELSE IF user # NoUser
         THEN /\ input' = <<>>
              /\ sendMessage(user, input)
         ELSE UNCHANGED <<input, messages, sendReqs, clock>>

\* The send button's onClick (line 257).
ClickSend ==
    /\ WithLoader(isLoading)
    /\ (trim(input) # <<>> /\ user # NoUser) =>
           (clock < MaxClock /\ Len(sendReqs) < MaxSendReqs)
    /\ handleSendMessage
    /\ lastOp' = Op("handleSendMessage", 0)
    /\ UNCHANGED <<user, isLoading, histReqs, timers>>
    /\ UNCHANGED surveyVars

Keys == {"Enter", "a"}

\* handleKeyDown (lines 88-93): Enter without Shift sends; any other key is left
\* to the textarea.
handleKeyDown(key, shiftKey) ==
    /\ WithLoader(isLoading)
    /\ (key = "Enter" /\ ~shiftKey /\ trim(input) # <<>> /\ user # NoUser) =>
           (clock < MaxClock /\ Len(sendReqs) < MaxSendReqs)
    /\ IF key = "Enter" /\ ~shiftKey
       THEN /\ handleSendMessage
            /\ lastOp' = Op("handleSendMessage", 0)
       ELSE /\ UNCHANGED <<input, messages, sendReqs, clock>>
            /\ lastOp' = Op("handleKeyDown", 0)
    /\ UNCHANGED <<user, isLoading, histReqs, timers>>
    /\ UNCHANGED surveyVars

\* api.chat.sendMessage resolves: line 54 appends the assistant message.  The
\* backend built and stamped it at some instant ts after the request was issued
\* and no later than now.
SendReply(i, ts) ==
    /\ i \in 1..Len(sendReqs)
    /\ ts \in (sendReqs[i].userMessage.timestamp + 1)..clock
    /\ messages' = appendMessage(messages, Message("assistant", ReplyContent, ts))
    /\ clock' = clock + 1
    /\ sendReqs' = RemoveAt(sendReqs, i)
    /\ lastOp' = Op("sendReply", ts)
    /\ UNCHANGED <<user, input, isLoading, histReqs, timers>>
    /\ UNCHANGED surveyVars

\* api.chat.sendMessage rejects: sendMessage and handleSendMessage end in an
\* unhandled rejection.
SendFail(i) ==
    /\ i \in 1..Len(sendReqs)
    /\ sendReqs' = RemoveAt(sendReqs, i)
    /\ lastOp' = Op("sendFail", 0)
    /\ UNCHANGED <<user, input, messages, isLoading, histReqs, timers, clock>>
    /\ UNCHANGED surveyVars

\* api.chat.messages resolves with a page of k messages: loadPage lines 42-44,
\* then the history effect if the transcript became empty.
HistoryReply(i, k) ==
    /\ i \in 1..Len(histReqs)
    /\ messages' = flatten(HistoryPage(k))
    /\ HistoryEffect(user, messages, user, flatten(HistoryPage(k)), FALSE,
                     RemoveAt(histReqs, i))
    /\ lastOp' = Op("historyReply", k)
    /\ UNCHANGED <<user, input, sendReqs, timers, clock>>
    /\ UNCHANGED surveyVars

\* api.chat.messages rejects, with line 44 moved into a finally block.
HistoryFailClearsLoading(i) ==
    /\ i \in 1..Len(histReqs)
    /\ histReqs' = RemoveAt(histReqs, i)
    /\ isLoading' = FALSE
    /\ lastOp' = Op("historyFail", 0)
    /\ UNCHANGED <<user, input, messages, sendReqs, timers, clock>>
    /\ UNCHANGED surveyVars

\* api.chat.messages rejects: loadPage ends at line 41.
HistoryFail(i) ==
    /\ i \in 1..Len(histReqs)
    /\ histReqs' = RemoveAt(histReqs, i)
    /\ lastOp' = Op("historyFail", 0)
    /\ UNCHANGED <<user, input, messages, isLoading, sendReqs, timers, clock>>
    /\ UNCHANGED surveyVars

\* handleInvestRecommendations (lines 95-104): the canned user message, and a
\* timer for the canned reply.
handleInvestRecommendations ==
    /\ WithLoader(isLoading)
    /\ clock < MaxClock
    /\ Len(timers) < MaxTimers
    /\ messages' = appendMessage(messages,
                                 Message("user", RecommendationsContent, clock))
    /\ timers' = Append(timers, clock)
    /\ clock' = clock + 1
    /\ lastOp' = Op("handleInvestRecommendations", 0)
    /\ UNCHANGED <<user, input, isLoading, histReqs, sendReqs>>
    /\ UNCHANGED surveyVars

\* The timer's callback as an interval callback: the timer stays set.
TimerFireRepeats ==
    /\ timers # <<>>
    /\ messages' = appendMessage(messages, mockInvestMessage)
    /\ lastOp' = Op("timer", 0)
    /\ UNCHANGED <<user, input, isLoading, histReqs, sendReqs, clock, timers>>
    /\ UNCHANGED surveyVars

\* The timer's callback (line 102); timers of one delay fire in the order set.
TimerFire ==
    /\ timers # <<>>
    /\ messages' = appendMessage(messages, mockInvestMessage)
    /\ timers' = Tail(timers)
    /\ lastOp' = Op("timer", 0)
    /\ UNCHANGED <<user, input, isLoading, histReqs, sendReqs, clock>>
    /\ UNCHANGED surveyVars

\* ------------------------------------------------------------- SurveyModal
\* The value of a missing property or array element.
Undefined == "undefined"
\* a || b on strings: b when a is undefined or the empty string.
OrElse(a, b) == IF a \in {Undefined, ""} THEN b ELSE a
\* arr[i - 1] of a JavaScript array, i counted from 1.
At(arr, i) == IF i \in 1..Len(arr) THEN arr[i] ELSE Undefined

Null == [answers |-> <<Undefined>>, isNull |-> TRUE]
AnswersResponse(answers) == [answers |-> answers, isNull |-> FALSE]

\* GET /survey/questions: no questions, or the five of the survey.
QuestionResponses == {<<>>, <<"q1", "q2", "q3", "q4", "q5">>}
\* GET /survey/answers: k saved answers for k = 0, 2, 5.
AnswerResponses ==
    {AnswersResponse(<<>>), AnswersResponse(<<"x", "y">>),
     AnswersResponse(<<"x", "", "y", "x", "y">>)}
\* POST /survey/answers: the summary.
SummaryResponses == {"", "# Result"}

FormValues(v1, v2, v3, v4, v5) ==
    [question1 |-> v1, question2 |-> v2, question3 |-> v3,
     question4 |-> v4, question5 |-> v5]

\* form.resetFields(): no field has a value.
EmptyForm == FormValues(Undefined, Undefined, Undefined, Undefined, Undefined)

\* What the user types into the five fields: all answered, or the third left
\* empty.
TypedForms ==
    {FormValues("a1", "a2", "a3", "a4", "a5"),
     FormValues("a1", "a2", "", "a4", "a5")}

\* mapAnswersToFormValues reading each field one position too far.
mapAnswersToFormValuesShifted(answers) ==
    FormValues(OrElse(At(answers, 2), ""), OrElse(At(answers, 3), ""),
               OrElse(At(answers, 4), ""), OrElse(At(answers, 5), ""),
               OrElse(At(answers, 6), ""))

\* mapAnswersToFormValues (lines 43-51)
mapAnswersToFormValues(answers) ==
    FormValues(OrElse(At(answers, 1), ""), OrElse(At(answers, 2), ""),
               OrElse(At(answers, 3), ""), OrElse(At(answers, 4), ""),
               OrElse(At(answers, 5), ""))

\* The pre-fill effect (lines 53-57), run after a render in which savedAnswers or
\* questions changed: the form's values after it.
PrefillEffect(newSavedAnswers, newQuestions, values) ==
    IF ~newSavedAnswers.isNull /\ Len(newQuestions) > 0
    THEN mapAnswersToFormValues(newSavedAnswers.answers)
    ELSE values

\* The request body of handleSubmit with question_1 and question_2 exchanged.
SurveyAnswersRequestSwapped(userId, values) ==
    [user_id |-> userId,
     question_1 |-> values.question2, question_2 |-> values.question1,
     question_3 |-> values.question3, question_4 |-> values.question4,
     question_5 |-> values.question5]

\* The request body handleSubmit builds (lines 62-69).
SurveyAnswersRequest(userId, values) ==
    [user_id |-> userId,
     question_1 |-> values.question1, question_2 |-> values.question2,
     question_3 |-> values.question3, question_4 |-> values.question4,
     question_5 |-> values.question5]

\* The Form.Item of question n is rendered for n <= questions.length (lines
\* 109-124); onFinish hands handleSubmit the values of the rendered fields.
Rendered(values, n) == IF n <= Len(questions) THEN values ELSE Undefined
RenderedValues ==
    FormValues(Rendered(formValues.question1, 1), Rendered(formValues.question2, 2),
               Rendered(formValues.question3, 3), Rendered(formValues.question4, 4),
               Rendered(formValues.question5, 5))

\* rules required (line 114): every rendered field holds a non-empty answer.
Valid(values) ==
    /\ Len(questions) >= 1 => values.question1 \notin {Undefined, ""}
    /\ Len(questions) >= 2 => values.question2 \notin {Undefined, ""}
    /\ Len(questions) >= 3 => values.question3 \notin {Undefined, ""}
    /\ Len(questions) >= 4 => values.question4 \notin {Undefined, ""}
    /\ Len(questions) >= 5 => values.question5 \notin {Undefined, ""}

\* One loadData call: the two members of its Promise.all, each "pending", "ok"
\* or "failed".
LoadReq(userId, q, a) == [userId |-> userId, q |-> q, a |-> a]

\* Drops a loadData call from the calls in flight once both fetches settled.
Settle(reqs, i, req) ==
    IF req.q # "pending" /\ req.a # "pending"
    THEN RemoveAt(reqs, i)
    ELSE [reqs EXCEPT ![i] = req]

\* The open effect running loadData whatever the user identity.
OpenEffectNoUserCheck(newOpen, newUser) == newOpen

\* The condition of the open effect (line 85).
OpenEffectRuns(newOpen, newUser) == newOpen /\ newUser # NoUser

\* The open effect (lines 84-89), run after a render in which open or user
\* changed: loadData up to its await (setLoading, both fetches issued), then
\* form.resetFields().
OpenEffect(newOpen, newUser, calls) ==
    IF OpenEffectRuns(newOpen, newUser)
    THEN /\ loading' = TRUE
         /\ loadReqs' = Append(loadReqs, LoadReq(newUser, "pending", "pending"))
         /\ formValues' = EmptyForm
         /\ trace' = calls \o <<"setLoading(true)", "getQuestions", "getAnswers",
                                "await", "resetFields">>
    ELSE /\ UNCHANGED <<loading, loadReqs, formValues>>
         /\ trace' = calls

\* The parent opens the modal: prop open becomes true.
OpenModal ==
    /\ ~open
    /\ OpenEffectRuns(TRUE, user) => Len(loadReqs) < MaxLoads
    /\ open' = TRUE
    /\ OpenEffect(TRUE, user, <<>>)
    /\ lastOp' = Op("open", 0)
    /\ UNCHANGED <<user, questions, savedAnswers, summaryModalOpen, summaryData,
                   submitReqs>>
    /\ UNCHANGED chatVars

\* onClose, from the modal's onCancel (line 96): the parent sets open to false.
onClose ==
    /\ open
    /\ open' = FALSE
    /\ lastOp' = Op("onClose", 0)
    /\ trace' = <<"onClose">>
    /\ UNCHANGED <<user, loading, questions, savedAnswers, formValues,
                   summaryModalOpen, summaryData, loadReqs, submitReqs>>
    /\ UNCHANGED chatVars

\* UserProvider resolves, changes or drops the user identity.
SurveySetUser(u) ==
    /\ u # user
    /\ OpenEffectRuns(open, u) => Len(loadReqs) < MaxLoads
    /\ user' = u
    /\ OpenEffect(open, u, <<>>)
    /\ lastOp' = Op("setUser", 0)
    /\ UNCHANGED <<open, questions, savedAnswers, summaryModalOpen, summaryData,
                   submitReqs>>
    /\ UNCHANGED chatVars

\* The user fills the fields of the open form in; the fields are disabled
\* while loading (line 121).
TypeAnswers(values) ==
    /\ open /\ ~loading /\ Len(questions) > 0
    /\ formValues # values
    /\ formValues' = values
    /\ lastOp' = Op("type", 0)
    /\ trace' = <<>>
    /\ UNCHANGED <<user, open, loading, questions, savedAnswers, summaryModalOpen,
                   summaryData, loadReqs, submitReqs>>
    /\ UNCHANGED chatVars

\* loadData dropping the responses of a modal that has been closed.
LoadResolvedIfOpen(i, req, questionsResponse, answersResponse) ==
    /\ questions' = IF open THEN questionsResponse ELSE questions
    /\ savedAnswers' = IF open THEN answersResponse ELSE savedAnswers
    /\ loading' = FALSE
    /\ formValues' = PrefillEffect(savedAnswers', questions', formValues)
    /\ loadReqs' = Settle(loadReqs, i, req)
    /\ lastOp' = Op("loadDone", Len(questionsResponse))
    /\ trace' = IF open
                THEN <<"setQuestions", "setSavedAnswers", "setLoading(false)">>
                ELSE <<"setLoading(false)">>

\* Promise.all of loadData call i resolves with both responses: lines 34-35 and
\* the finally of line 39, then the pre-fill effect.
LoadResolved(i, req, questionsResponse, answersResponse) ==
    /\ questions' = questionsResponse
    /\ savedAnswers' = answersResponse
    /\ loading' = FALSE
    /\ formValues' = PrefillEffect(answersResponse, questionsResponse, formValues)
    /\ loadReqs' = Settle(loadReqs, i, req)
    /\ lastOp' = Op("loadDone", Len(questionsResponse))
    /\ trace' = <<"setQuestions", "setSavedAnswers", "setLoading(false)">>

\* loadData without its finally: a rejection leaves loading set.
LoadRejectedNoFinally(i, req) ==
    /\ loadReqs' = Settle(loadReqs, i, req)
    /\ lastOp' = Op("loadFail", 0)
    /\ trace' = <<"console.error">>
    /\ UNCHANGED <<loading, questions, savedAnswers, formValues>>

\* Promise.all of loadData call i rejects: the catch of line 37 and the finally
\* of line 39.
LoadRejected(i, req) ==
    /\ loading' = FALSE
    /\ loadReqs' = Settle(loadReqs, i, req)
    /\ lastOp' = Op("loadFail", 0)
    /\ trace' = <<"console.error", "setLoading(false)">>
    /\ UNCHANGED <<questions, savedAnswers, formValues>>

\* A fetch of loadData call i settles after its Promise.all rejected: nothing
\* listens.
LoadIgnored(i, req) ==
    /\ loadReqs' = Settle(loadReqs, i, req)
    /\ lastOp' = Op("fetchIgnored", 0)
    /\ trace' = <<>>
    /\ UNCHANGED <<loading, questions, savedAnswers, formValues>>

Status(req, which) == IF which = "q" THEN req.q ELSE req.a
Other(which) == IF which = "q" THEN "a" ELSE "q"
With(req, which, result) ==
    IF which = "q" THEN [req EXCEPT !.q = result] ELSE [req EXCEPT !.a = result]

\* Fetch which ("q": getQuestions, "a": getAnswers) of loadData call i resolves.
\* Promise.all resolves once both members have: with the other still pending
\* nothing runs, and after a rejection nothing listens.
FetchResolves(i, which, questionsResponse, answersResponse) ==
    /\ i \in 1..Len(loadReqs)
    /\ Status(loadReqs[i], which) = "pending"
    /\ LET req == With(loadReqs[i], which, "ok")
           other == Status(loadReqs[i], Other(which))
       IN  IF other = "ok"
           THEN LoadResolved(i, req, questionsResponse, answersResponse)
           ELSE /\ questionsResponse = <<>> /\ answersResponse = Null
                /\ IF other = "failed"
                   THEN LoadIgnored(i, req)
                   ELSE /\ loadReqs' = Settle(loadReqs, i, req)
                        /\ lastOp' = Op("fetchDone", 0)
                        /\ trace' = <<>>
                        /\ UNCHANGED <<loading, questions, savedAnswers, formValues>>
    /\ UNCHANGED <<user, open, summaryModalOpen, summaryData, submitReqs>>
    /\ UNCHANGED chatVars

\* Fetch which of loadData call i rejects: Promise.all rejects at the first
\* rejection of a member; a later one is ignored.
FetchRejects(i, which) ==
    /\ i \in 1..Len(loadReqs)
    /\ Status(loadReqs[i], which) = "pending"
    /\ LET req == With(loadReqs[i], which, "failed")
       IN  IF Status(loadReqs[i], Other(which)) = "failed"
           THEN LoadIgnored(i, req)
           ELSE LoadRejected(i, req)
    /\ UNCHANGED <<user, open, summaryModalOpen, summaryData, submitReqs>>
    /\ UNCHANGED chatVars

\* handleSubmit (lines 59-73) up to its await, called by the form's onFinish:
\* the submit button is disabled while loading (line 131) and onFinish needs the
\* rendered fields valid.
handleSubmit(values) ==
    /\ open /\ ~loading /\ Valid(values)
    /\ user # NoUser => Len(submitReqs) < MaxSubmits
    /\ IF user = NoUser
       THEN /\ UNCHANGED <<loading, submitReqs>>
            /\ trace' = <<>>
       ELSE /\ loading' = TRUE
            /\ submitReqs' = Append(submitReqs, SurveyAnswersRequest(user, values))
            /\ trace' = <<"setLoading(true)", "submitAnswers", "await">>
    /\ lastOp' = Op("handleSubmit", 0)
    /\ UNCHANGED <<user, open, questions, savedAnswers, formValues,
                   summaryModalOpen, summaryData, loadReqs>>
    /\ UNCHANGED chatVars

\* The continuation of handleSubmit closing nothing: line 75 left out.
SubmitResolvedNoClose(response) ==
    /\ summaryData' = response.summary
    /\ open' = open
    /\ summaryModalOpen' = TRUE
    /\ loading' = FALSE
    /\ trace' = <<"setSummaryData", "setSummaryModalOpen(true)", "setLoading(false)">>

\* The continuation of handleSubmit after a resolved request (lines 74-76 and
\* the finally of line 80).  open turns false, so the open effect does nothing.
SubmitResolved(response) ==
    /\ summaryData' = response.summary
    /\ open' = FALSE
    /\ summaryModalOpen' = TRUE
    /\ loading' = FALSE
    /\ trace' = <<"setSummaryData", "onClose", "setSummaryModalOpen(true)",
                  "setLoading(false)">>

\* api.survey.submitAnswers call i resolves.
SubmitReply(i, summary) ==
    /\ i \in 1..Len(submitReqs)
    /\ SubmitResolved([summary |-> summary])
    /\ submitReqs' = RemoveAt(submitReqs, i)
    /\ lastOp' = Op("submitDone", summary)
    /\ UNCHANGED <<user, questions, savedAnswers, formValues, loadReqs>>
    /\ UNCHANGED chatVars

\* api.survey.submitAnswers call i rejects: the catch of line 78 and the finally
\* of line 80.
SubmitFail(i) ==
    /\ i \in 1..Len(submitReqs)
    /\ loading' = FALSE
    /\ submitReqs' = RemoveAt(submitReqs, i)
    /\ lastOp' = Op("submitFail", 0)
    /\ trace' = <<"console.error", "setLoading(false)">>
    /\ UNCHANGED <<user, open, questions, savedAnswers, formValues,
                   summaryModalOpen, summaryData, loadReqs>>
    /\ UNCHANGED chatVars

\* The result modal's onCancel and its close button (lines 146, 151).
CloseSummary ==
    /\ summaryModalOpen
    /\ summaryModalOpen' = FALSE
    /\ lastOp' = Op("closeSummary", 0)
    /\ trace' = <<"setSummaryModalOpen(false)">>
    /\ UNCHANGED <<user, open, loading, questions, savedAnswers, formValues,
                   summaryData, loadReqs, submitReqs>>
    /\ UNCHANGED chatVars

\* What the result modal renders (lines 158-172): the summary, or the spinner
\* while summaryData is empty.
Spinner == "<Spin>"
SummaryModalBody == IF summaryData # "" THEN summaryData ELSE Spinner

SurveyInit ==
    /\ open = FALSE
    /\ loading = FALSE
    /\ questions = <<>>
    /\ savedAnswers = Null
    /\ formValues = EmptyForm
    /\ summaryModalOpen = FALSE
    /\ summaryData = ""
    /\ loadReqs = <<>>
    /\ submitReqs = <<>>
    /\ trace = <<>>

ChatInit ==
    /\ input = <<>>
    /\ messages = <<>>
    /\ isLoading = FALSE
    /\ histReqs = <<>>
    /\ sendReqs = <<>>
    /\ timers = <<>>
    /\ clock = 1

Init ==
    /\ user = NoUser
    /\ lastOp = Op("mount", 0)
    /\ ChatInit
    /\ SurveyInit

Next ==
    \/ \E u \in Users : SetUser(u)
    \/ \E text \in Inputs : SetInput(text)
    \/ ClickSend
    \/ \E key \in Keys, shiftKey \in BOOLEAN : handleKeyDown(key, shiftKey)
    \/ \E i \in DOMAIN sendReqs, ts \in 1..(MaxClock + MaxSendReqs) : SendReply(i, ts)
    \/ \E i \in DOMAIN sendReqs : SendFail(i)
    \/ \E i \in DOMAIN histReqs, k \in HistorySizes : HistoryReply(i, k)
    \/ \E i \in DOMAIN histReqs : HistoryFail(i)
    \/ handleInvestRecommendations
    \/ TimerFire

Spec == Init /\ [][Next]_vars

SurveyNext ==
    \/ OpenModal
    \/ onClose
    \/ \E u \in Users \cup {NoUser} : SurveySetUser(u)
    \/ \E values \in TypedForms : TypeAnswers(values)
    \/ \E i \in DOMAIN loadReqs, which \in {"q", "a"},
          questionsResponse \in QuestionResponses \cup {<<>>},
          answersResponse \in AnswerResponses \cup {Null} :
          FetchResolves(i, which, questionsResponse, answersResponse)
    \/ \E i \in DOMAIN loadReqs, which \in {"q", "a"} : FetchRejects(i, which)
    \/ handleSubmit(RenderedValues)
    \/ \E i \in DOMAIN submitReqs, summary \in SummaryResponses : SubmitReply(i, summary)
    \/ \E i \in DOMAIN submitReqs : SubmitFail(i)
    \/ CloseSummary

SurveySpec == Init /\ [][SurveyNext]_vars

\* ================================================================ claims
Cap == 2 * messagesPerPage

\* The steps that call appendMessage once, and the message each appends.
AppendOps == {"handleSendMessage", "sendReply", "handleInvestRecommendations", "timer"}
Blank(text) == \A i \in DOMAIN text : text[i] \in WhiteSpace
Appended ==
    CASE lastOp'.op = "handleSendMessage" -> Message("user", input, clock)
      [] lastOp'.op = "sendReply" -> Message("assistant", ReplyContent, lastOp'.arg)
      [] lastOp'.op = "handleInvestRecommendations" ->
             Message("user", RecommendationsContent, clock)
      [] OTHER -> mockInvestMessage
IsAppendStep ==
    /\ lastOp'.op \in AppendOps
    /\ lastOp'.op = "handleSendMessage" => (~Blank(input) /\ user # NoUser)

C2_AppendEvictsTwoOldest ==
    [][IsAppendStep =>
          IF Len(messages) >= Cap
          THEN messages' = SubSeq(messages, 3, Len(messages)) \o <<Appended>>
          ELSE messages' = messages \o <<Appended>>]_vars

\* C2 witness: the user message of a send was appended to a full transcript,
\* which now starts with the former third entry.
C2_Witness ==
    /\ lastOp.op = "handleSendMessage"
    /\ Len(messages) = Cap - 1
    /\ messages[1] = StoredMessage(Cap, 3)
    /\ messages[Cap - 1].role = "user"

\* C3: from a transcript of exactly 2 x messagesPerPage entries, a send whose
\* reply arrives with the transcript untouched in between leaves
\* 2 x messagesPerPage entries: the former entries 3..40 in order, then the new
\* user message, then the assistant reply.
C3_CompletedSendAtCap ==
    [][\A i \in DOMAIN sendReqs :
          (/\ lastOp'.op = "sendReply"
           /\ sendReqs' = RemoveAt(sendReqs, i)
           /\ Len(sendReqs[i].base) = Cap
           /\ messages = sendReqs[i].sent)
          => /\ Len(messages') = Cap
             /\ messages' = SubSeq(sendReqs[i].base, 3, Cap)
                            \o <<sendReqs[i].userMessage,
                                 Message("assistant", ReplyContent, lastOp'.arg)>>]_vars

\* C3 witness: a reply was appended, the transcript holds the cap, starts with
\* the third entry of the full history page and ends with the user message and
\* the reply.
C3_Witness ==
    /\ lastOp.op = "sendReply"
    /\ Len(messages) = Cap
    /\ messages[1] = StoredMessage(Cap, 3)
    /\ messages[Cap - 2] = StoredMessage(Cap, Cap)
    /\ messages[Cap - 1].role = "user" /\ messages[Cap - 1].content = <<SP, "a", SP>>
    /\ messages[Cap].role = "assistant" /\ messages[Cap].content = ReplyContent

\* C4: handleSendMessage on an empty or white-space-only input issues no request,
\* appends nothing and leaves the input as it is.
C4_BlankInputNoAction ==
    [][(lastOp'.op = "handleSendMessage" /\ Blank(input))
          => UNCHANGED <<input, messages, sendReqs, histReqs>>]_vars

\* C4 witness: handleSendMessage ran for a known user on a white-space-only
\* input, which is still in the textarea.
C4_Witness ==
    /\ lastOp.op = "handleSendMessage"
    /\ input = <<NL, SP>>
    /\ user # NoUser

\* C5: the survey fetches are issued only in a state where the modal is open and
\* the user is known; opening the modal with no user issues none.
C5_NoFetchWithoutUser ==
    [][/\ Len(loadReqs') > Len(loadReqs) => (open' /\ user' # NoUser)
       /\ (~open /\ open' /\ user' = NoUser) => loadReqs' = loadReqs]_vars

\* C5 witness: the modal was opened with the user unresolved and nothing is in
\* flight.
C5_Witness ==
    /\ lastOp.op = "open"
    /\ open /\ user = NoUser
    /\ loadReqs = <<>> /\ trace = <<>>

\* C6: the request of a submission has user_id equal to the current user and
\* question_N equal to form field questionN for N = 1..5.
C6_SubmitMapping ==
    [][(lastOp'.op = "handleSubmit" /\ user # NoUser) =>
          /\ Len(submitReqs') = Len(submitReqs) + 1
          /\ LET request == submitReqs'[Len(submitReqs')]
             IN  /\ request.user_id = user
                 /\ request.question_1 = RenderedValues.question1
                 /\ request.question_2 = RenderedValues.question2
                 /\ request.question_3 = RenderedValues.question3
                 /\ request.question_4 = RenderedValues.question4
                 /\ request.question_5 = RenderedValues.question5]_vars

\* C6 witness: a submission of five distinct typed answers is in flight.
C6_Witness ==
    /\ lastOp.op = "handleSubmit"
    /\ submitReqs # <<>>
    /\ submitReqs[Len(submitReqs)] =
           [user_id |-> "u1", question_1 |-> "a1", question_2 |-> "a2",
            question_3 |-> "a3", question_4 |-> "a4", question_5 |-> "a5"]

Field(values, n) ==
    CASE n = 1 -> values.question1
      [] n = 2 -> values.question2
      [] n = 3 -> values.question3
      [] n = 4 -> values.question4
      [] OTHER -> values.question5

\* C7: when saved answers of length k <= 5 are pre-filled, field questionN holds
\* the N-th saved answer for N <= k and the empty string for N in k+1..5.
C7_PrefillDefaults ==
    (/\ lastOp.op = "loadDone"
     /\ ~savedAnswers.isNull
     /\ Len(questions) > 0
     /\ Len(savedAnswers.answers) <= 5)
    => \A n \in 1..5 :
          Field(formValues, n) =
              IF n <= Len(savedAnswers.answers) THEN savedAnswers.answers[n] ELSE ""

\* C7 witness: two saved answers were pre-filled; fields 3..5 are empty.
C7_Witness ==
    /\ lastOp.op = "loadDone"
    /\ Len(questions) > 0
    /\ savedAnswers = AnswersResponse(<<"x", "y">>)
    /\ formValues = FormValues("x", "y", "", "", "")

C9_FailureLeavesState ==
    [][/\ lastOp'.op \in {"loadFail", "submitFail"} =>
             /\ loading' = FALSE
             /\ Len(loadReqs') <= Len(loadReqs)
             /\ Len(submitReqs') <= Len(submitReqs)
             /\ UNCHANGED <<questions, savedAnswers, summaryData,
                            summaryModalOpen, open>>
       /\ lastOp'.op = "fetchIgnored" =>
             /\ Len(loadReqs') <= Len(loadReqs)
             /\ UNCHANGED <<questions, savedAnswers, summaryData,
                            summaryModalOpen, open, submitReqs>>]_vars

\* C9 witness: of one loadData call the questions fetch failed with the answers
\* fetch still pending, and loading is cleared.
C9_Witness ==
    /\ lastOp.op = "loadFail"
    /\ ~loading
    /\ \E i \in DOMAIN loadReqs :
          loadReqs[i].q = "failed" /\ loadReqs[i].a = "pending"

\* A loadData call whose Promise.all has not settled, or a submit in flight.
CallOutstanding ==
    \/ \E i \in DOMAIN loadReqs : "failed" \notin {loadReqs[i].q, loadReqs[i].a}
    \/ submitReqs # <<>>

\* C10: in every reachable state in which a survey load or submit is still
\* outstanding, loading is true.
C10_LoadingWhileOutstanding == CallOutstanding => loading

\* The transcript after the eviction of appendMessage.
Evicted(transcript) ==
    IF Len(transcript) >= Cap THEN SubSeq(transcript, 3, Len(transcript))
    ELSE transcript

\* C11: a submission with non-blank input and a known user appends the locally
\* built user message before it issues the request (the transcript the request
\* leaves behind ends with it) and clears the input; when the request succeeds
\* the returned assistant message is appended once, at the end, so behind the
\* user message that caused it wherever that is still in the transcript.
C11_SendThenReply ==
    [][/\ (lastOp'.op = "handleSendMessage" /\ ~Blank(input) /\ user # NoUser) =>
             /\ input' = <<>>
             /\ Len(sendReqs') = Len(sendReqs) + 1
             /\ SubSeq(sendReqs', 1, Len(sendReqs)) = sendReqs
             /\ LET request == sendReqs'[Len(sendReqs')]
                IN  /\ request.userId = user
                    /\ request.content = input
                    /\ request.userMessage = Message("user", input, clock)
                    /\ request.sent = messages'
                    /\ messages' = Evicted(messages) \o <<request.userMessage>>
       /\ \A i \in DOMAIN sendReqs :
             (lastOp'.op = "sendReply" /\ sendReqs' = RemoveAt(sendReqs, i)) =>
                LET reply == Message("assistant", ReplyContent, lastOp'.arg)
                IN  /\ messages' = Evicted(messages) \o <<reply>>
                    /\ \A j \in DOMAIN messages' :
                          messages'[j] = sendReqs[i].userMessage
                              => j < Len(messages')]_vars

\* C11 witness: a reply was appended right behind the user message of its send,
\* and the input is empty.
C11_Witness ==
    /\ lastOp.op = "sendReply"
    /\ input = <<>>
    /\ Len(messages) >= 2
    /\ messages[Len(messages) - 1] = Message("user", <<SP, "a", SP>>, 1)
    /\ messages[Len(messages)] = Message("assistant", ReplyContent, 2)

\* C12: in every reachable state the messages stand in the transcript in the
\* order in which they were created: no message stands before one that was
\* created earlier.
C12_Chronological ==
    \A i, j \in DOMAIN messages :
        i < j => messages[i].timestamp <= messages[j].timestamp

\* The messages of a response in the order it carries them: entry by entry,
\* newest first.
RECURSIVE NewestFirst(_)
NewestFirst(entries) ==
    IF entries = <<>> THEN <<>>
    ELSE Head(entries).messages \o NewestFirst(Tail(entries))

\* C13: after a history fetch succeeded the transcript is the exact reverse of
\* the newest-first flattening of the response, so it is oldest first and holds
\* every message of the response once.
C13_HistoryReversed ==
    lastOp.op = "historyReply" =>
        LET response == NewestFirst(HistoryPage(lastOp.arg).entries)
        IN  /\ Len(messages) = Len(response)
            /\ \A i \in DOMAIN messages :
                  messages[i] = response[Len(response) + 1 - i]
            /\ \A i, j \in DOMAIN messages :
                  i < j => messages[i].timestamp < messages[j].timestamp
            /\ \A i \in DOMAIN response :
                  Cardinality({j \in DOMAIN messages : messages[j] = response[i]}) = 1

\* C13 witness: a page of three messages (an entry of one, an entry of two) was
\* loaded and stands oldest first.
C13_Witness ==
    /\ lastOp.op = "historyReply"
    /\ lastOp.arg = 3
    /\ messages = <<StoredMessage(3, 1), StoredMessage(3, 2), StoredMessage(3, 3)>>

\* C14: a click on the recommendations shortcut appends the canned user message
\* at once, issues no backend request and sets one timer; a timer fires once,
\* appending the canned assistant message; no other step appends that message,
\* and a timer is pending only after its click's user message was appended.
C14_Recommendations ==
    [][/\ lastOp'.op = "handleInvestRecommendations" =>
             /\ messages' = Evicted(messages)
                               \o <<Message("user", RecommendationsContent, clock)>>
             /\ timers' = timers \o <<clock>>
             /\ clock' > clock
             /\ histReqs' = histReqs /\ sendReqs' = sendReqs
       /\ lastOp'.op = "timer" =>
             /\ timers # <<>>
             /\ timers[1] < clock
             /\ timers' = Tail(timers)
             /\ messages' = Evicted(messages) \o <<mockInvestMessage>>
             /\ histReqs' = histReqs /\ sendReqs' = sendReqs
       /\ lastOp'.op \notin {"handleInvestRecommendations", "timer"} =>
             /\ timers' = timers
             /\ (messages' # messages /\ messages' # <<>>) =>
                    messages'[Len(messages')] # mockInvestMessage]_vars

\* C14 witness: the timer of a click fired; the transcript is the canned user
\* message followed by the canned assistant message, and no timer is left.
C14_Witness ==
    /\ lastOp.op = "timer"
    /\ timers = <<>>
    /\ messages = <<Message("user", RecommendationsContent, 1), mockInvestMessage>>

\* C15: a failed send changes neither the transcript nor the input and issues
\* nothing; a failed history fetch changes neither the transcript nor the
\* loading flag and issues nothing; the loading flag, once set, is cleared only
\* by a successful history fetch, so after a failed one it stays set.
C15_FailureNotRecovered ==
    [][/\ \A i \in DOMAIN sendReqs :
             (lastOp'.op = "sendFail" /\ sendReqs' = RemoveAt(sendReqs, i)) =>
                 /\ messages' = messages
                 /\ input' = input
                 /\ \E j \in DOMAIN sendReqs[i].sent :
                       sendReqs[i].sent[j] = sendReqs[i].userMessage
                 /\ histReqs' = histReqs /\ timers' = timers
       /\ lastOp'.op = "historyFail" =>
             /\ messages' = messages
             /\ isLoading /\ isLoading'
             /\ Len(histReqs') = Len(histReqs) - 1
             /\ sendReqs' = sendReqs /\ timers' = timers
       /\ (isLoading /\ ~isLoading') => lastOp'.op = "historyReply"
       /\ (isLoading /\ histReqs = <<>>) => (isLoading' /\ histReqs' = <<>>)]_vars

\* C15 witness: the history fetch failed and then a send failed; the loading
\* flag is still set, the user message is still there without a reply, and the
\* input is still empty.
C15_Witness ==
    /\ lastOp.op = "sendFail"
    /\ user # NoUser /\ isLoading /\ histReqs = <<>>
    /\ sendReqs = <<>>
    /\ input = <<>>
    /\ messages = <<Message("user", <<SP, "a", SP>>, 1)>>

\* C16: no request is cancelled.  Closing the modal or changing the user drops
\* no outstanding load or submit call, and a response is applied whatever the
\* modal's and the user's state: a load response overwrites questions and saved
\* answers, a submit response calls onClose and opens the result modal.
C16_NoCancellation ==
    [][/\ lastOp'.op \in {"onClose", "setUser"} =>
             /\ submitReqs' = submitReqs
             /\ Len(loadReqs') >= Len(loadReqs)
             /\ SubSeq(loadReqs', 1, Len(loadReqs)) = loadReqs
       /\ lastOp'.op = "loadDone" =>
             /\ questions' \in QuestionResponses
             /\ Len(questions') = lastOp'.arg
             /\ savedAnswers' \in AnswerResponses \cup {Null}
             /\ \E k \in DOMAIN trace' : trace'[k] = "setSavedAnswers"
             /\ ~loading'
             /\ Len(loadReqs') = Len(loadReqs) - 1
       /\ lastOp'.op = "submitDone" =>
             /\ summaryData' = lastOp'.arg
             /\ \E k \in DOMAIN trace' : trace'[k] = "onClose"
             /\ ~open'
             /\ summaryModalOpen'
             /\ Len(submitReqs') = Len(submitReqs) - 1]_vars

\* C16 witness: the modal was closed and the user dropped while a load was
\* outstanding, and its response has replaced questions and saved answers.
C16_Witness ==
    /\ lastOp.op = "loadDone"
    /\ ~open
    /\ user = NoUser
    /\ questions = <<"q1", "q2", "q3", "q4", "q5">>
    /\ savedAnswers = AnswersResponse(<<"x", "y">>)

\* A message that a send, a backend reply or the recommendations shortcut
\* appended, as opposed to one of a loaded page.
AppendedLocally(message) == message.content # StoredMessage(1, 1).content

\* C17: a message appended by a send, a backend reply or the recommendations
\* shortcut leaves the transcript only as one of the two oldest entries that an
\* append evicts from a full transcript; every other step keeps it.
C17_AppendedStays ==
    [][\A i \in DOMAIN messages :
          AppendedLocally(messages[i]) =>
              \/ \E j \in DOMAIN messages' : messages'[j] = messages[i]
              \/ IsAppendStep /\ Len(messages) >= Cap /\ i <= 2]_vars

\* C18: without a user the chat page has no request outstanding and
\* handleSendMessage changes neither transcript nor input; a history fetch is
\* issued only with a user and an empty transcript, a send only by
\* handleSendMessage with a user and a non-blank input.
C18_NoRequestWithoutUser ==
    [][/\ user' = NoUser => (histReqs' = <<>> /\ sendReqs' = <<>>)
       /\ (\/ Len(histReqs') > Len(histReqs)
           \/ /\ lastOp'.op \in {"historyReply", "historyFail"}
              /\ Len(histReqs') >= Len(histReqs)) =>
             /\ user' # NoUser
             /\ messages' = <<>>
             /\ histReqs'[Len(histReqs')].userId = user'
       /\ Len(sendReqs') > Len(sendReqs) =>
             /\ lastOp'.op = "handleSendMessage"
             /\ user # NoUser
             /\ ~Blank(input)
             /\ sendReqs'[Len(sendReqs')].userId = user
       /\ (lastOp'.op = "handleSendMessage" /\ user = NoUser) =>
             /\ messages' = messages
             /\ input' = input
             /\ sendReqs' = sendReqs]_vars

\* C18 witness: handleSendMessage ran on a non-blank input with no user; the
\* input is still there, the transcript is empty and nothing was requested.
C18_Witness ==
    /\ lastOp.op = "handleSendMessage"
    /\ user = NoUser
    /\ input = <<SP, "a", SP>>
    /\ messages = <<>>
    /\ sendReqs = <<>> /\ histReqs = <<>>

====
